---- MODULE Spec2Model ----
(***************************************************************************)
(* Venturi flowmeter firmware (Main_Firmware.ino): signal conditioning     *)
(* and fallback pipeline.                                                  *)
(*                                                                         *)
(* Number representation: the arithmetic of the ATmega328P build.          *)
(*   raw readings      : integers (C "long").                              *)
(*   float, double     : IEEE-754 binary32 (avr-gcc gives double the       *)
(*                       format of float).  A float is held as an integer  *)
(*                       ordered like the floats: the bit pattern of |x|,  *)
(*                       negated for x < 0.  Every operation is rounded to *)
(*                       nearest, ties to even, as the operations of the   *)
(*                       firmware are.  filteredReading and all heights    *)
(*                       are floats.                                       *)
(*   pressures, flows  : integers, mPa and nl/s, every division rounded    *)
(*                       down.                                             *)
(*   failureCount      : an int of the build: 16 bits on the target, where *)
(*                       the increment of 32767 (line 193) stores -32768;  *)
(*                       the width of int and the treatment of the signed  *)
(*                       overflow are configuration of the build.          *)
(*                                                                         *)
(* The sensor collaborator is the environment: every read draws a value    *)
(* from RawValues (StabValues while the filter is stabilized).             *)
(***************************************************************************)
EXTENDS Integers, Sequences, FiniteSets, TLC

VARIABLES
    pc,               \* position of the firmware: "setup", "stabilize", "read", "process",
                      \* "aborted"
    i,                \* stabilizeFilter loop index
    filteredReading,  \* EMA filter state (float)
    lastValidHeight,  \* last valid snapped height (float, metres)
    failureCount,     \* consecutive failed reads
    inFallbackMode,   \* fallback status flag
    rawValue,         \* loop local: the reading of the current cycle
    isValid,          \* loop local: verdict of validateReading
    heightCalculated, \* loop local (float, metres)
    heightSnapped,    \* loop local (float, metres)
    serial,           \* notification lines printed by the last completed cycle
    streak,           \* history: consecutive cycles whose reading was judged invalid
    activations,      \* history: ACTIVATED notifications printed in the current streak
    lastNotice,       \* history: most recent notification printed so far
    heldHeight,       \* history: snapped height of the most recent valid cycle
    cycles,           \* history: completed loop cycles
    probe,            \* function-level checks: the arguments handed to the function
    result,           \* function-level checks: what the function returned
    sensorRawMin,     \* configuration: SENSOR_RAW_MIN of the build
    sensorRawMax,     \* configuration: SENSOR_RAW_MAX of the build
    intBits,          \* configuration: width of int in the build, in bits
    overflowTraps,    \* configuration: the build traps on signed overflow (-ftrapv)
    initialValue,     \* initializeSystem local: the initial reading
    seeds,            \* history: assignments that seeded filteredReading
    pressureDiff,     \* loop local (mPa)
    flowRate,         \* loop local (nl/s)
    lcd,              \* display updates made by the last completed cycle
    telemetry,        \* telemetry lines printed by the last completed cycle
    filteredValue,    \* calibration logger: EMA filter state (float)
    maxReading,       \* calibration logger: statistics
    minReading,
    sumReadings,
    sampleCount,
    calI,             \* calibration logger: the counter of stabilizeFilter's loop
    elapsed,          \* calibration logger: millis() - calibStartTime, in sample periods
    calOut,           \* calibration logger: marker lines and data rows printed
    printed,          \* calibration logger: the numbers of the summary block
    sensorRead,       \* history: what the sensor returned to the last collectData
    filteredBefore,   \* history: filteredValue when the last collectData was called
    calReads,         \* history: sensor reads since the end of setup()
    haltTicks,        \* history: iterations of the halt loop
    zeroPoint,        \* simulation-capable firmware: auto-zero of the sensor
    isRealMode,       \* simulation-capable firmware: the selected source
    simIndex,         \* simulation-capable firmware: index into H_VALS / Q_VALS
    zeroI,            \* setup(): the counter of the auto-zero loop
    zeroTotal,        \* setup(): total of the auto-zero reads
    validSamples,     \* loop(): wet reads of the analysis phase
    accumRaw,         \* loop(): their accumulated value
    analysisI,        \* loop(): reads of the analysis phase so far
    simLine,          \* measurement lines sent by the last step
    simLcd,           \* display updates made by the last step
    lastByte,         \* history: last result of Serial.read() in setup()
    polls,            \* history: Serial.read() calls that did not return 'S'
    analyses,         \* history: decisions taken at the end of an analysis phase
    wetReads,         \* history: analysis reads with reading - zeroPoint > 100
    lastRoutine,      \* history: routine executed by the last step
    readIndex,        \* history: index of the last read of H_VALS and Q_VALS
    simSteps          \* history: steps of the main operation loop

(* globals of the firmware *)
globals == <<filteredReading, lastValidHeight, failureCount, inFallbackMode>>
(* locals of loop() *)
locals == <<rawValue, isValid, heightCalculated, heightSnapped>>
(* history of the run *)
history == <<streak, activations, lastNotice, heldHeight, cycles>>
(* state of the function-level checks *)
pureVars == <<probe, result>>

(* calibration constants and compiler settings of the build *)
config == <<sensorRawMin, sensorRawMax, intBits, overflowTraps>>
(* startup of initializeSystem *)
startup == <<initialValue, seeds>>
(* what a cycle reports *)
frame == <<pressureDiff, flowRate, lcd, telemetry>>
(* everything the main firmware owns *)
firmwareVars == <<i, globals, locals, serial, history, config, startup, frame>>

(* everything the calibration logger owns *)
calibVars == <<filteredValue, maxReading, minReading, sumReadings, sampleCount, calI,
               elapsed, calOut, printed, sensorRead, filteredBefore, calReads,
               haltTicks>>

(* everything the simulation-capable firmware owns *)
simVars == <<zeroPoint, isRealMode, simIndex, zeroI, zeroTotal, validSamples, accumRaw,
             analysisI, simLine, simLcd, lastByte, polls, analyses, wetReads,
             lastRoutine, readIndex, simSteps>>

vars == <<pc, firmwareVars, pureVars, calibVars, simVars>>

-----------------------------------------------------------------------------
(* Bounds of the model *)

MaxCycles == 8        \* loop cycles explored

(* Readings the sensor collaborator may deliver: the error sentinel, the   *)
(* envelope bounds, the calibration midpoint and one reading above the    *)
(* envelope                                                               *)
RawValues == {-1, 0, 4870, 15000, 15001}

(* Readings delivered while the filter is stabilized: a faulty sensor     *)
(* (sentinel) or one that saturates above the envelope                    *)
StabValues == {-1, 15001}

-----------------------------------------------------------------------------
(* Configuration section of the firmware *)

SENSOR_RAW_MIN == 510
SENSOR_RAW_MAX == 9230
H_MAX_MM == 145              \* H_MAX_METERS = 0.145
EMA_ALPHA_TENTHS == 1        \* EMA_ALPHA = 0.1
EXTREME_MIN == 0
EXTREME_MAX == 15000
MAX_FAILURES == 5
STABILIZE_SAMPLES == 20      \* stabilizeFilter(20)

(* (SENSOR_RAW_MAX - SENSOR_RAW_MIN) of the build *)
SPAN == sensorRawMax - sensorRawMin

(* the result of 0.0 / 0.0, and of every operation on it *)
NaN == -2147483647

Abs(x) == IF x > 0 THEN x ELSE -x

(* the division of two C integers, the quotient truncated toward zero *)
TruncDiv(a, b) ==
    IF (a < 0) = (b < 0) THEN Abs(a) \div Abs(b) ELSE -(Abs(a) \div Abs(b))

-----------------------------------------------------------------------------
(* Arithmetic of float.  No operand of the firmware is infinite.           *)

(* 2^23 and 2^24: a float has 23 stored and 24 significant mantissa bits; *)
(* the bit pattern of +infinity                                          *)
TWO23 == 8388608
TWO24 == 16777216
F32_INFINITY == 2139095040

BitLength(n) ==
    LET b16 == IF n >= 65536 THEN 16 ELSE 0
        n16 == n \div 2^b16
        b8 == IF n16 >= 256 THEN 8 ELSE 0
        n8 == n16 \div 2^b8
        b4 == IF n8 >= 16 THEN 4 ELSE 0
        n4 == n8 \div 2^b4
        b2 == IF n4 >= 4 THEN 2 ELSE 0
        n2 == n4 \div 2^b2
    IN  b16 + b8 + b4 + b2 + (IF n2 >= 2 THEN 2 ELSE n2)

F32Sign(c) == IF c < 0 THEN -1 ELSE 1
F32Mantissa(c) ==
    LET bits == Abs(c)
    IN  IF bits \div TWO23 = 0 THEN bits % TWO23 ELSE TWO23 + (bits % TWO23)
F32Exponent(c) ==
    LET biased == Abs(c) \div TWO23
    IN  IF biased = 0 THEN -149 ELSE biased - 150

(* mantissa and exponent with the mantissa brought to 24 bits *)
F32Shift(c) == 24 - BitLength(F32Mantissa(c))
F32Significand(c) == F32Mantissa(c) * 2^F32Shift(c)
F32Scale(c) == F32Exponent(c) - F32Shift(c)

F32Pack(sign, m, e) ==
    LET mantissa == IF m = TWO24 THEN TWO23 ELSE m
        exponent == IF m = TWO24 THEN e + 1 ELSE e
    IN  IF mantissa < TWO23
        THEN sign * mantissa
        ELSE IF exponent + 150 >= 255
             THEN sign * F32_INFINITY
             ELSE sign * ((exponent + 150) * TWO23 + (mantissa - TWO23))

F32Round(sign, n, e, sticky) ==
    IF n = 0
    THEN 0
    ELSE LET len == BitLength(n)
             shift == IF len - 24 > -149 - e THEN len - 24 ELSE -149 - e
         IN  IF shift <= 0
             THEN F32Pack(sign, n * 2^(-shift), e + shift)
             ELSE IF shift > 30
                  THEN 0
                  ELSE LET q == n \div 2^shift
                           r == n % 2^shift
                           half == 2^(shift - 1)
                           up == r > half \/ (r = half /\ (sticky \/ q % 2 = 1))
                       IN  F32Pack(sign, IF up THEN q + 1 ELSE q, e + shift)

F32FromLong(n) == F32Round(IF n < 0 THEN -1 ELSE 1, Abs(n), 0, FALSE)

F32ToLong(c) ==
    LET m == F32Mantissa(c)
        e == F32Exponent(c)
    IN  IF e >= 0
        THEN F32Sign(c) * m * 2^e
        ELSE IF -e > 24 THEN 0 ELSE F32Sign(c) * (m \div 2^(-e))

(* the 48-bit product of two numbers below 2^24, as hi * 2^24 + lo *)
WideProduct(ma, mb) ==
    LET a1 == ma \div 4096
        a0 == ma % 4096
        b1 == mb \div 4096
        b0 == mb % 4096
        mid == a1 * b0 + a0 * b1
        low == (mid % 4096) * 4096 + a0 * b0
    IN  [hi |-> a1 * b1 + (mid \div 4096) + (low \div TWO24), lo |-> low % TWO24]

F32Mul(a, b) ==
    IF a = NaN \/ b = NaN
    THEN NaN
    ELSE LET product == WideProduct(F32Significand(a), F32Significand(b))
         IN  F32Round(F32Sign(a) * F32Sign(b),
                      product.hi * 64 + (product.lo \div 262144),
                      F32Scale(a) + F32Scale(b) + 18, product.lo % 262144 # 0)

F32SumAligned(sa, ma, ea, sb, mb, eb) ==
    LET d == ea - eb
    IN  IF d <= 5
        THEN LET n == sa * ma * 2^d + sb * mb
             IN  F32Round(IF n < 0 THEN -1 ELSE 1, Abs(n), eb, FALSE)
        ELSE LET big == ma * 32
                 sh == d - 5
                 small == IF sh > 24 THEN 0 ELSE mb \div 2^sh
                 sticky == IF sh > 24 THEN mb # 0 ELSE mb % 2^sh # 0
                 n == IF sa = sb
                      THEN big + small
                      ELSE big - small - (IF sticky THEN 1 ELSE 0)
             IN  F32Round(sa, n, ea - 5, sticky)

F32Add(a, b) ==
    IF a = NaN \/ b = NaN
    THEN NaN
    ELSE IF F32Exponent(a) >= F32Exponent(b)
         THEN F32SumAligned(F32Sign(a), F32Mantissa(a), F32Exponent(a),
                            F32Sign(b), F32Mantissa(b), F32Exponent(b))
         ELSE F32SumAligned(F32Sign(b), F32Mantissa(b), F32Exponent(b),
                            F32Sign(a), F32Mantissa(a), F32Exponent(a))

F32Sub(a, b) == IF b = NaN THEN NaN ELSE F32Add(a, -b)

RECURSIVE F32DivSteps(_, _, _, _)
F32DivSteps(q, r, divisor, k) ==
    IF k = 0
    THEN [q |-> q, r |-> r]
    ELSE IF 2 * r >= divisor
         THEN F32DivSteps(2 * q + 1, 2 * r - divisor, divisor, k - 1)
         ELSE F32DivSteps(2 * q, 2 * r, divisor, k - 1)

F32Div(a, b) ==
    IF a = NaN \/ b = NaN
    THEN NaN
    ELSE IF b = 0
         THEN IF a = 0 THEN NaN ELSE F32Sign(a) * F32_INFINITY
         ELSE LET ma == F32Significand(a)
                  mb == F32Significand(b)
                  d == F32DivSteps(ma \div mb, ma % mb, mb, 26)
              IN  IF a = 0
                  THEN 0
                  ELSE F32Round(F32Sign(a) * F32Sign(b), d.q,
                                F32Scale(a) - F32Scale(b) - 26,
                                d.r # 0)

F32Decimal(p, q) == F32Div(F32FromLong(p), F32FromLong(q))

-----------------------------------------------------------------------------
(* const float H_MAX_METERS = 0.145 and const float EMA_ALPHA = 0.1 *)
H_MAX_METERS == F32Decimal(H_MAX_MM, 1000)
EMA_ALPHA == F32Decimal(EMA_ALPHA_TENTHS, 10)

(* (1.0 - EMA_ALPHA), a float subtraction where double is float *)
EMA_COMPLEMENT == F32Sub(F32FromLong(1), EMA_ALPHA)

-----------------------------------------------------------------------------
(* filteredReading = (EMA_ALPHA * raw) + ((1.0 - EMA_ALPHA) * filteredReading) *)
EmaUpdate(raw, f) ==
    F32Add(F32Mul(EMA_ALPHA, F32FromLong(raw)), F32Mul(EMA_COMPLEMENT, f))

(* (long)filteredReading : truncation toward zero *)
ToLong(f) == F32ToLong(f)

(* long maxDelta = (SENSOR_RAW_MAX - SENSOR_RAW_MIN) * 0.5, truncated to long *)
MaxDelta == SPAN \div 2

(* bool validateReading(long rawValue), reading the global filteredReading = f *)
validateReading(raw, f) ==
    IF raw < EXTREME_MIN \/ raw > EXTREME_MAX
    THEN FALSE
    ELSE IF f > 0 /\ Abs(raw - ToLong(f)) > MaxDelta
         THEN FALSE
         ELSE TRUE

-----------------------------------------------------------------------------
(* Height mapping and snapping *)

(* Arduino constrain(amt, low, high) *)
Constrain(amt, low, high) ==
    IF amt < low THEN low ELSE IF amt > high THEN high ELSE amt

(* variant: the clamp forgotten *)
MapToHeightUnclamped(f) ==
    F32Mul(F32Div(F32Sub(f, F32FromLong(sensorRawMin)),
                  F32FromLong(sensorRawMax - sensorRawMin)),
           H_MAX_METERS)

(* variant: the interpolation measured from the wrong end of the range *)
MapToHeightInverted(f) ==
    LET clampedValue == Constrain(f, F32FromLong(sensorRawMin), F32FromLong(sensorRawMax))
    IN  F32Mul(F32Div(F32Sub(F32FromLong(sensorRawMax), clampedValue),
                      F32FromLong(sensorRawMax - sensorRawMin)),
               H_MAX_METERS)

(* lines 177-183: clamp to the calibrated range (the bounds converted to    *)
(* float for the comparison), then linear interpolation; with               *)
(* SENSOR_RAW_MAX = SENSOR_RAW_MIN the clamped value is SENSOR_RAW_MIN and  *)
(* line 181 divides 0.0 by 0.0                                              *)
MapToHeight(f) ==
    LET clampedValue == Constrain(f, F32FromLong(sensorRawMin), F32FromLong(sensorRawMax))
        normalizedValue == F32Div(F32Sub(clampedValue, F32FromLong(sensorRawMin)),
                                  F32FromLong(sensorRawMax - sensorRawMin))
    IN  F32Mul(normalizedValue, H_MAX_METERS)

(* HEIGHT_STEPS[], the literals in millimetres *)
HEIGHT_STEPS_MM == <<0, 10, 20, 30, 40, 50, 60, 70, 80, 90, 100, 110, 120, 130, 140, 145>>
HEIGHT_STEPS_COUNT == Len(HEIGHT_STEPS_MM)

(* HEIGHT_STEPS[] as stored: each literal rounded to float *)
HEIGHT_STEPS_TABLE ==
    [k \in 1..HEIGHT_STEPS_COUNT |-> F32Decimal(HEIGHT_STEPS_MM[k], 1000)]
HEIGHT_STEPS(k) == HEIGHT_STEPS_TABLE[k]

(* float minDifference = 1000.0 *)
MIN_DIFFERENCE_INIT_M == 1000

(* variant: "<=" written for "<", so that a later equally near step wins *)
DifferenceLessOrEqual(difference, acc) == difference <= acc.minDifference

(* line 322: difference < minDifference *)
DifferenceLess(difference, acc) == difference < acc.minDifference

(* the for loop of snapToRealisticValue, from index k (1-based) onward; the *)
(* difference of line 320 is a float subtraction                            *)
RECURSIVE SnapScan(_, _, _)
SnapScan(calculatedHeight, k, acc) ==
    IF k > HEIGHT_STEPS_COUNT
    THEN acc.nearestValue
    ELSE LET difference == Abs(F32Sub(calculatedHeight, HEIGHT_STEPS(k)))
         IN  IF DifferenceLess(difference, acc)
             THEN SnapScan(calculatedHeight, k + 1,
                           [minDifference |-> difference,
                            nearestValue |-> HEIGHT_STEPS(k)])
             ELSE SnapScan(calculatedHeight, k + 1, acc)

(* variant: the computed height reported as it is *)
snapToRealisticValueSkipped(calculatedHeight) == calculatedHeight

(* float snapToRealisticValue(float calculatedHeight), lines 315-329; no    *)
(* comparison with NaN holds, so that NaN is returned as it came            *)
snapToRealisticValue(calculatedHeight) ==
    IF calculatedHeight = NaN
    THEN NaN
    ELSE SnapScan(calculatedHeight, 1,
                  [minDifference |-> F32FromLong(MIN_DIFFERENCE_INIT_M),
                   nearestValue |-> calculatedHeight])

-----------------------------------------------------------------------------
(* Flow model.  Densities are counted in g/m^3, pressures in mPa, flow     *)
(* rates in nl/s; a height is brought to the nearest micrometre first.     *)
(* Every division rounds down.                                             *)

FLUID_DENSITY_G == 1000000       \* FLUID_DENSITY = 1000.0 kg/m^3
MANOMETER_DENSITY_G == 1225      \* MANOMETER_DENSITY = 1.225 kg/m^3
GRAVITY_CM == 981                \* GRAVITY = 9.81 m/s^2
MIN_FLOW_HEIGHT_MM == 1          \* MIN_FLOW_HEIGHT = 0.001 m

(* const float MIN_FLOW_HEIGHT = 0.001 *)
MIN_FLOW_HEIGHT == F32Decimal(MIN_FLOW_HEIGHT_MM, 1000)

(* range of int on the target, Main_Firmware.ino line 97 *)
INT16_MAX == 32767
INT16_MIN == -32768

(* range of int in a build with an int of 32 bits *)
INT32_MAX == 2147483647
INT32_MIN == -INT32_MAX - 1

TARGET_INT_BITS == 16    \* sizeof(int) * 8 of avr-gcc for the ATmega328P
WIDE_INT_BITS == 32      \* sizeof(int) * 8 of a build for a 32-bit processor

(* the build for the target: 16-bit int, no trap on signed overflow *)
TargetBuild ==
    /\ intBits = TARGET_INT_BITS
    /\ overflowTraps = FALSE

(* builds of the sketch: the target build, a build with a 32-bit int, and *)
(* the latter compiled to trap on signed overflow                         *)
Builds ==
    { [bits |-> TARGET_INT_BITS, traps |-> FALSE],
      [bits |-> WIDE_INT_BITS, traps |-> FALSE],
      [bits |-> WIDE_INT_BITS, traps |-> TRUE] }

(* largest and smallest int of the build *)
INT_MAX == IF intBits = TARGET_INT_BITS THEN INT16_MAX ELSE INT32_MAX
INT_MIN == IF intBits = TARGET_INT_BITS THEN INT16_MIN ELSE INT32_MIN

(* part_000 line 54: Serial.read() with nothing received, and the byte 'S' *)
NO_BYTE == -1
START_BYTE == 83

(* Calibration_Code.ino line 25: minReading before the first sample *)
MIN_READING_INIT == 999999

(* Calibration_Code.ino line 119: iterations of its stabilizeFilter *)
CAL_STABILIZE_SAMPLES == 20

(* FLOW_CONSTANT * 1000 l/m^3 * sqrt(1 mPa), lines 78-82 and 354, in nl/s *)
FLOW_NL_PER_ROOT_MPA == 179473

(* const float DENSITY_DIFF = FLUID_DENSITY - MANOMETER_DENSITY *)
DENSITY_DIFF == FLUID_DENSITY_G - MANOMETER_DENSITY_G

(* a height of less than 2 m in micrometres, to the nearest one *)
Micrometres(height) ==
    LET product == WideProduct(F32Mantissa(height), 1000000)
        s == -F32Exponent(height)
    IN  IF s > 55
        THEN 0
        ELSE IF s >= 25
             THEN F32Sign(height) * ((product.hi + 2^(s - 25)) \div 2^(s - 24))
             ELSE F32Sign(height) *
                      (product.hi * 2^(24 - s) + ((product.lo + 2^(s - 1)) \div 2^s))

(* densityDiff * GRAVITY * height, lines 208 and 344, in mPa *)
RawPressure(densityDiff, height) ==
    (((densityDiff * GRAVITY_CM) \div 100000) * Micrometres(height)) \div 1000

(* variant: the clamp of a negative pressure forgotten *)
ClampPressureForgotten(pressure) == pressure

(* if (pressureDiff < 0.0) pressureDiff = 0.0, lines 209-211 and 346-348 *)
ClampPressure(pressure) == IF pressure < 0 THEN 0 ELSE pressure

(* loop() step 3, lines 206-211; NaN < 0.0 does not hold *)
LoopPressureFor(densityDiff, height) ==
    IF height = NaN THEN NaN ELSE ClampPressure(RawPressure(densityDiff, height))

(* loop() step 3 with the configured densities *)
LoopPressure(height) == LoopPressureFor(DENSITY_DIFF, height)

(* largest r in lo..hi with r * r <= n *)
RECURSIVE RootBetween(_, _, _)
RootBetween(n, lo, hi) ==
    IF lo >= hi
    THEN lo
    ELSE LET mid == (lo + hi + 1) \div 2
         IN  IF mid * mid <= n
             THEN RootBetween(n, mid, hi)
             ELSE RootBetween(n, lo, mid - 1)

(* sqrt() of a non-negative number, rounded down; of a negative number   *)
(* and of NaN the library returns NaN                                     *)
Sqrt(n) == IF n < 0 THEN NaN ELSE RootBetween(n, 0, 46340)

(* FLOW_CONSTANT * root * 1000.0, lines 351-354 *)
FlowOfRoot(root) == IF root = NaN THEN NaN ELSE FLOW_NL_PER_ROOT_MPA * root

(* the argument calculateFlowRate hands to sqrt(), lines 343-351 *)
SqrtArgumentFor(densityDiff, height) == ClampPressure(RawPressure(densityDiff, height))

(* variant: the no-flow threshold forgotten *)
FlowRateNoThresholdFor(densityDiff, height) ==
    FlowOfRoot(Sqrt(SqrtArgumentFor(densityDiff, height)))

(* float calculateFlowRate(float height), lines 337-357, for a given       *)
(* DENSITY_DIFF                                                            *)
calculateFlowRateFor(densityDiff, height) ==
    IF height = NaN
    THEN NaN
    ELSE IF height < MIN_FLOW_HEIGHT
         THEN 0
         ELSE FlowOfRoot(Sqrt(SqrtArgumentFor(densityDiff, height)))

(* variant: the threshold of one millimetre taken as one metre *)
calculateFlowRateMetreThreshold(height) ==
    IF height = NaN
    THEN NaN
    ELSE IF height < F32FromLong(MIN_FLOW_HEIGHT_MM)
         THEN 0
         ELSE FlowOfRoot(Sqrt(SqrtArgumentFor(DENSITY_DIFF, height)))

(* float calculateFlowRate(float height) with the configured densities *)
calculateFlowRate(height) == calculateFlowRateFor(DENSITY_DIFF, height)

-----------------------------------------------------------------------------
(* State machine *)

(* globals at lines 95-98; loop locals and history not yet set *)
GlobalsAtRest ==
    /\ i = 0
    /\ filteredReading = 0
    /\ lastValidHeight = 0
    /\ failureCount = 0
    /\ inFallbackMode = FALSE
    /\ rawValue = 0
    /\ isValid = FALSE
    /\ heightCalculated = 0
    /\ heightSnapped = 0
    /\ serial = <<>>
    /\ streak = 0
    /\ activations = 0
    /\ lastNotice = "none"
    /\ heldHeight = 0
    /\ cycles = 0
    /\ initialValue = 0
    /\ seeds = 0
    /\ pressureDiff = 0
    /\ flowRate = 0
    /\ lcd = <<>>
    /\ telemetry = <<>>

(* the firmware as built: calibration constants of lines 13-14 *)
FirmwareAtRest ==
    /\ sensorRawMin = SENSOR_RAW_MIN
    /\ sensorRawMax = SENSOR_RAW_MAX
    /\ TargetBuild
    /\ GlobalsAtRest

(* no function-level check in progress *)
PureAtRest ==
    /\ probe = <<>>
    /\ result = <<>>

(* part_000, globals at lines 34-36; nothing read, nothing sent *)
SimAtRest ==
    /\ zeroPoint = 0
    /\ isRealMode = FALSE
    /\ simIndex = 0
    /\ zeroI = 0
    /\ zeroTotal = 0
    /\ validSamples = 0
    /\ accumRaw = 0
    /\ analysisI = 0
    /\ simLine = <<>>
    /\ simLcd = <<>>
    /\ lastByte = NO_BYTE
    /\ polls = 0
    /\ analyses = 0
    /\ wetReads = 0
    /\ lastRoutine = "none"
    /\ readIndex = 0
    /\ simSteps = 0

(* Calibration_Code.ino, globals at lines 18-26; nothing printed, no read *)
CalibAtRest ==
    /\ filteredValue = 0
    /\ maxReading = 0
    /\ minReading = MIN_READING_INIT
    /\ sumReadings = 0
    /\ sampleCount = 0
    /\ calI = 0
    /\ elapsed = 0
    /\ calOut = <<>>
    /\ printed = <<>>
    /\ sensorRead = 0
    /\ filteredBefore = 0
    /\ calReads = 0
    /\ haltTicks = 0

Init ==
    /\ pc = "setup"
    /\ FirmwareAtRest
    /\ PureAtRest
    /\ CalibAtRest
    /\ SimAtRest

(* variant: the filter always seeded with the initial reading *)
SeedValueUnchecked(reading, f) == F32FromLong(reading)

(* lines 244-251: the value that seeds the filter, (float)initialValue or *)
(* (SENSOR_RAW_MIN + SENSOR_RAW_MAX) / 2.0                               *)
SeedValue(reading, f) ==
    IF validateReading(reading, f)
    THEN F32FromLong(reading)
    ELSE F32Div(F32FromLong(sensorRawMin + sensorRawMax), F32FromLong(2))

(* initializeSystem(), up to the call of stabilizeFilter *)
InitializeSystem(reading) ==
    /\ pc = "setup"
    /\ initialValue' = reading
    /\ filteredReading' = SeedValue(reading, filteredReading)
    /\ seeds' = seeds + 1
    /\ i' = 0
    /\ pc' = "stabilize"
    /\ UNCHANGED <<lastValidHeight, failureCount, inFallbackMode, locals, serial,
                   history, config, frame, pureVars, calibVars, simVars>>

(* variant: the sign test of the stabilization reading forgotten *)
StabilizedValueUnguarded(reading, f) == EmaUpdate(reading, f)

(* lines 273-276: the filter value after one stabilization reading *)
StabilizedValue(reading, f) ==
    IF reading >= 0 THEN EmaUpdate(reading, f) ELSE f

(* one iteration of the for loop of stabilizeFilter(20); after the last one *)
(* setup() returns and loop() starts                                        *)
StabilizeFilter(reading) ==
    /\ pc = "stabilize"
    /\ i < STABILIZE_SAMPLES
    /\ filteredReading' = StabilizedValue(reading, filteredReading)
    /\ i' = i + 1
    /\ pc' = IF i + 1 < STABILIZE_SAMPLES THEN "stabilize" ELSE "read"
    /\ UNCHANGED <<lastValidHeight, failureCount, inFallbackMode, locals, serial,
                   history, config, startup, frame, pureVars, calibVars, simVars>>

(* variant: validation counts the failure itself *)
ReadSensorCounting(raw) ==
    /\ pc = "read"
    /\ cycles < MaxCycles
    /\ rawValue' = raw
    /\ isValid' = validateReading(raw, filteredReading)
    /\ failureCount' = IF isValid' THEN failureCount ELSE failureCount + 1
    /\ heightCalculated' = 0
    /\ heightSnapped' = 0
    /\ serial' = <<>>
    /\ pressureDiff' = 0
    /\ flowRate' = 0
    /\ lcd' = <<>>
    /\ telemetry' = <<>>
    /\ pc' = "process"
    /\ UNCHANGED <<i, filteredReading, lastValidHeight, inFallbackMode, history,
                   config, startup, pureVars, calibVars, simVars>>

(* loop() step 1, lines 154-160: read the sensor, validate, clear the      *)
(* locals; cycles are followed up to the number limit                      *)
ReadSensorUpTo(raw, limit) ==
    /\ pc = "read"
    /\ cycles < limit
    /\ rawValue' = raw
    /\ isValid' = validateReading(raw, filteredReading)
    /\ heightCalculated' = 0
    /\ heightSnapped' = 0
    /\ serial' = <<>>
    /\ pressureDiff' = 0
    /\ flowRate' = 0
    /\ lcd' = <<>>
    /\ telemetry' = <<>>
    /\ pc' = "process"
    /\ UNCHANGED <<i, globals, history, config, startup, pureVars, calibVars, simVars>>

(* loop() step 1, followed for MaxCycles cycles *)
ReadSensor(raw) == ReadSensorUpTo(raw, MaxCycles)

(* number of lines of the cycle's output that are the notification n *)
Count(out, n) == Cardinality({k \in DOMAIN out : out[k] = n})

(* most recent notification printed, given the cycle's output *)
LatestNotice(out, before) == IF out = <<>> THEN before ELSE out[Len(out)]

(* variant: the restored notification printed on every valid cycle *)
RestoreNoticeAlways(fallback) == <<"RESTORED">>

(* lines 168-171: what a valid cycle prints when it leaves fallback *)
RestoreNotice(fallback) ==
    IF fallback THEN <<"RESTORED">> ELSE <<>>

(* line 193, failureCount++ on an int (line 97): what a build that does not *)
(* trap stores.  The increment of the largest int is a signed overflow; the *)
(* addition of the processor stores the smallest int, -32768 on the target  *)
IntIncrement(count) ==
    IF count = INT_MAX THEN INT_MIN ELSE count + 1

(* line 193 in a build that traps on signed overflow: the increment of the *)
(* largest int calls abort() instead of storing a value                    *)
IncrementTraps(count) == overflowTraps /\ count = INT_MAX

(* variant: fallback entered one failure late *)
ShouldActivateLate(fallback, failures) ==
    ~fallback /\ failures > MAX_FAILURES

(* variant: the test of inFallbackMode forgotten *)
ShouldActivateRepeated(fallback, failures) ==
    failures >= MAX_FAILURES

(* line 195: the condition under which an invalid cycle enters fallback, *)
(* evaluated after failureCount++                                        *)
ShouldActivate(fallback, failures) ==
    ~fallback /\ failures >= MAX_FAILURES

(* variant: an invalid cycle reports the cleared local instead of the held value *)
FallbackHeightZero(lastValid) == 0

(* lines 202-203: the height an invalid cycle reports *)
FallbackHeight(lastValid) == lastValid

(* lines 389-390: heightCm = height * 100.0; heightCm < 10.0, which is     *)
(* false for NaN                                                          *)
PressureShown(height) ==
    LET heightCm == F32Mul(height, F32FromLong(100))
    IN  heightCm # NaN /\ heightCm < F32FromLong(10)

(* displayData(), lines 367-395: flow on the first line, "!" in the corner *)
(* in fallback mode, height on the second line, followed by the pressure   *)
(* only when the height is below 10 cm (the field is empty otherwise)      *)
displayData(flow, height, pressure, fallback) ==
    [flow |-> flow, height |-> height,
     pressure |-> IF PressureShown(height) THEN <<pressure>> ELSE <<>>,
     warning |-> fallback]

(* variant: the marker printed on every rejected reading *)
FallbackMarkerOnInvalid(valid, fallback) == ~valid

(* lines 418-420: whether the telemetry line ends with " [FALLBACK]" *)
FallbackMarker(valid, fallback) == fallback

(* outputSerialData(), lines 401-423: one telemetry line *)
outputSerialData(raw, valid, filtered, hCalc, hSnap, pressure, flow, fallback) ==
    [raw |-> raw, valid |-> valid, filtered |-> filtered,
     heightCalculated |-> hCalc, heightSnapped |-> hSnap,
     pressure |-> pressure, flow |-> flow,
     marker |-> FallbackMarker(valid, fallback)]

(* variant: an invalid cycle returns before it reports *)
ReportFrameValidOnly ==
    /\ pressureDiff' = LoopPressure(heightSnapped')
    /\ flowRate' = calculateFlowRate(heightSnapped')
    /\ lcd' = IF isValid
              THEN <<displayData(flowRate', heightSnapped', pressureDiff',
                                 inFallbackMode')>>
              ELSE <<>>
    /\ telemetry' = IF isValid
                    THEN <<outputSerialData(rawValue, isValid, filteredReading',
                                            heightCalculated', heightSnapped',
                                            pressureDiff', flowRate', inFallbackMode')>>
                    ELSE <<>>

(* loop() steps 3-6, lines 206-223: pressure, flow, one display update and *)
(* one telemetry line, from the state the branch of step 2 left            *)
ReportFrame ==
    /\ pressureDiff' = LoopPressure(heightSnapped')
    /\ flowRate' = calculateFlowRate(heightSnapped')
    /\ lcd' = <<displayData(flowRate', heightSnapped', pressureDiff',
                            inFallbackMode')>>
    /\ telemetry' = <<outputSerialData(rawValue, isValid, filteredReading',
                                       heightCalculated', heightSnapped',
                                       pressureDiff', flowRate', inFallbackMode')>>

(* loop() step 2, lines 163-190: the reading was accepted *)
ProcessValid ==
    /\ pc = "process"
    /\ isValid
    /\ failureCount' = 0
    /\ inFallbackMode' = FALSE
    /\ serial' = RestoreNotice(inFallbackMode)
    /\ filteredReading' = EmaUpdate(rawValue, filteredReading)
    /\ heightCalculated' = MapToHeight(filteredReading')
    /\ heightSnapped' = snapToRealisticValue(heightCalculated')
    /\ lastValidHeight' = heightSnapped'
    /\ streak' = 0
    /\ activations' = 0
    /\ lastNotice' = LatestNotice(serial', lastNotice)
    /\ heldHeight' = heightSnapped'
    /\ cycles' = cycles + 1
    /\ pc' = "read"
    /\ UNCHANGED <<i, rawValue, isValid, config, startup, pureVars, calibVars, simVars>>
    /\ ReportFrame

(* line 193 in a build that traps, at the largest int: the process is    *)
(* ended inside the increment, nothing is stored and nothing is reported *)
ProcessInvalidTrapped ==
    /\ pc' = "aborted"
    /\ UNCHANGED <<firmwareVars, pureVars, calibVars, simVars>>

(* loop() step 2, lines 191-204, and steps 3-6: the reading was rejected *)
(* and the increment of line 193 has stored its value                    *)
ProcessInvalidCounted ==
    /\ failureCount' = IntIncrement(failureCount)
    /\ LET activate == ShouldActivate(inFallbackMode, failureCount')
       IN  /\ inFallbackMode' = (inFallbackMode \/ activate)
           /\ serial' = IF activate THEN <<"ACTIVATED">> ELSE <<>>
    /\ activations' = activations + Count(serial', "ACTIVATED")
    /\ lastNotice' = LatestNotice(serial', lastNotice)
    /\ heightSnapped' = FallbackHeight(lastValidHeight)
    /\ heightCalculated' = heightSnapped'
    /\ streak' = streak + 1
    /\ cycles' = cycles + 1
    /\ pc' = "read"
    /\ UNCHANGED <<i, filteredReading, lastValidHeight, rawValue, isValid, heldHeight,
                   config, startup, pureVars, calibVars, simVars>>
    /\ ReportFrame

(* loop() on a rejected reading, lines 191-223 *)
ProcessInvalid ==
    /\ pc = "process"
    /\ ~isValid
    /\ IF IncrementTraps(failureCount)
       THEN ProcessInvalidTrapped
       ELSE ProcessInvalidCounted

Next ==
    \/ \E raw \in RawValues : InitializeSystem(raw)
    \/ \E raw \in StabValues : StabilizeFilter(raw)
    \/ \E raw \in RawValues : ReadSensor(raw)
    \/ ProcessValid
    \/ ProcessInvalid

Spec == Init /\ [][Next]_vars

-----------------------------------------------------------------------------
(* The firmware with a sensor that fails from power-up on, followed for    *)
(* more cycles than an int of 16 bits counts, in each of the builds        *)

LongFaultCycles == 32770     \* cycles followed with the failing sensor

FaultValues == {-1}

NextLongFault ==
    \/ \E raw \in FaultValues : InitializeSystem(raw)
    \/ \E raw \in FaultValues : StabilizeFilter(raw)
    \/ \E raw \in FaultValues : ReadSensorUpTo(raw, LongFaultCycles)
    \/ ProcessInvalid

InitLongFault ==
    /\ pc = "setup"
    /\ sensorRawMin = SENSOR_RAW_MIN
    /\ sensorRawMax = SENSOR_RAW_MAX
    /\ \E build \in Builds :
          /\ intBits = build.bits
          /\ overflowTraps = build.traps
    /\ GlobalsAtRest
    /\ PureAtRest
    /\ CalibAtRest
    /\ SimAtRest

SpecLongFault == InitLongFault /\ [][NextLongFault]_vars

-----------------------------------------------------------------------------
(* The firmware with a healthy sensor that rests at one value within the   *)
(* envelope during all of loop()                                           *)

ConstantValues == {EXTREME_MAX}

NextConstant ==
    \/ \E raw \in RawValues : InitializeSystem(raw)
    \/ \E raw \in StabValues : StabilizeFilter(raw)
    \/ \E raw \in ConstantValues : ReadSensor(raw)
    \/ ProcessValid
    \/ ProcessInvalid

SpecConstant == Init /\ [][NextConstant]_vars

-----------------------------------------------------------------------------
(* The same firmware built with a degenerate calibration range:            *)
(* SENSOR_RAW_MAX == SENSOR_RAW_MIN                                        *)

InitDegenerate ==
    /\ pc = "setup"
    /\ sensorRawMin = SENSOR_RAW_MIN
    /\ sensorRawMax = SENSOR_RAW_MIN
    /\ TargetBuild
    /\ GlobalsAtRest
    /\ PureAtRest
    /\ CalibAtRest
    /\ SimAtRest

SpecDegenerate == InitDegenerate /\ [][Next]_vars

-----------------------------------------------------------------------------
(* Function-level specification of the height mapping: the mapping applied *)
(* to two filter values                                                    *)

MapSteps == 12       \* grid points of the filter values tried

(* filter values tried: a grid over the envelope, the calibration bounds   *)
(* and the midpoint, each with the floats next to it                      *)
FilterSamples ==
    { F32FromLong((EXTREME_MAX * k) \div MapSteps) : k \in 0..MapSteps }
    \cup { F32FromLong(b) + d :
             b \in {SENSOR_RAW_MIN, (SENSOR_RAW_MIN + SENSOR_RAW_MAX) \div 2,
                    SENSOR_RAW_MAX},
             d \in {-1, 0, 1} }

InitMap ==
    /\ pc = "call"
    /\ FirmwareAtRest
    /\ probe \in [a : FilterSamples, b : FilterSamples]
    /\ result = <<>>
    /\ CalibAtRest
    /\ SimAtRest

(* lines 177-183 applied to each of the two filter values *)
MapPair ==
    /\ pc = "call"
    /\ result' = [ha |-> MapToHeight(probe.a), hb |-> MapToHeight(probe.b)]
    /\ pc' = "returned"
    /\ UNCHANGED <<firmwareVars, probe, calibVars, simVars>>

NextMap == MapPair

SpecMap == InitMap /\ [][NextMap]_vars

-----------------------------------------------------------------------------
(* Function-level specification of snapToRealisticValue: the function      *)
(* applied to one height that its caller, line 186, passes                 *)

SnapMaxHalfMm == 290     \* heights tried: 0 .. SnapMaxHalfMm half millimetres

(* the heights line 186 passes are results of lines 178-183, floats from   *)
(* 0.0 to H_MAX_METERS: every half millimetre with the floats next to it   *)
NearHeights ==
    { h \in { F32Decimal(m, 2000) + d : m \in 0..SnapMaxHalfMm, d \in {-1, 0, 1} } :
        0 <= h /\ h <= H_MAX_METERS }

(* with SENSOR_RAW_MAX == SENSOR_RAW_MIN lines 181-183 compute 0 / 0.0, *)
(* and line 186 passes NaN                                              *)
DegenerateHeights == {NaN}

(* the build as it is, or the build with a degenerate calibration range, *)
(* and a height line 186 passes in that build                           *)
InitSnap ==
    /\ pc = "call"
    /\ sensorRawMin = SENSOR_RAW_MIN
    /\ \/ /\ sensorRawMax = SENSOR_RAW_MAX
          /\ probe \in [h : NearHeights]
       \/ /\ sensorRawMax = SENSOR_RAW_MIN
          /\ probe \in [h : DegenerateHeights]
    /\ TargetBuild
    /\ GlobalsAtRest
    /\ result = <<>>
    /\ CalibAtRest
    /\ SimAtRest

(* a call of snapToRealisticValue, lines 315-329 *)
SnapCall ==
    /\ pc = "call"
    /\ result' = snapToRealisticValue(probe.h)
    /\ pc' = "returned"
    /\ UNCHANGED <<firmwareVars, probe, calibVars, simVars>>

NextSnap == SnapCall

SpecSnap == InitSnap /\ [][NextSnap]_vars

-----------------------------------------------------------------------------
(* Function-level specification of the flow model: the pressure of loop()  *)
(* and calculateFlowRate applied to two heights, for the configured        *)
(* densities and for other density configurations                          *)

(* fluid and manometer densities (g/m^3): the configured ones, oil in a    *)
(* U-tube (line 25), a manometer fluid denser than the fluid, equal ones   *)
DensityConfigs ==
    { [fluid |-> FLUID_DENSITY_G, manometer |-> MANOMETER_DENSITY_G],
      [fluid |-> FLUID_DENSITY_G, manometer |-> 850000],
      [fluid |-> FLUID_DENSITY_G, manometer |-> 1590000],
      [fluid |-> FLUID_DENSITY_G, manometer |-> FLUID_DENSITY_G] }

FlowMaxHalfMm == 8       \* heights tried around the threshold: 0 .. FlowMaxHalfMm half millimetres

FlowHeights ==
    { F32Decimal(m, 2000) + d : m \in 0..FlowMaxHalfMm, d \in {0, 1} }
    \cup { MIN_FLOW_HEIGHT - 1 }
    \cup { HEIGHT_STEPS(k) : k \in 1..HEIGHT_STEPS_COUNT }

InitFlow ==
    /\ pc = "call"
    /\ FirmwareAtRest
    /\ probe \in [densities : DensityConfigs, h1 : FlowHeights, h2 : FlowHeights]
    /\ result = <<>>
    /\ CalibAtRest
    /\ SimAtRest

(* lines 206-214 for each of the two heights *)
FlowCall ==
    /\ pc = "call"
    /\ LET dd == probe.densities.fluid - probe.densities.manometer
       IN  result' = [pressure1 |-> LoopPressureFor(dd, probe.h1),
                      pressure2 |-> LoopPressureFor(dd, probe.h2),
                      sqrtArg1  |-> SqrtArgumentFor(dd, probe.h1),
                      sqrtArg2  |-> SqrtArgumentFor(dd, probe.h2),
                      flow1     |-> calculateFlowRateFor(dd, probe.h1),
                      flow2     |-> calculateFlowRateFor(dd, probe.h2)]
    /\ pc' = "returned"
    /\ UNCHANGED <<firmwareVars, probe, calibVars, simVars>>

NextFlow == FlowCall

SpecFlow == InitFlow /\ [][NextFlow]_vars

-----------------------------------------------------------------------------
(* The calibration logger, Calibration_Code.ino.  Time is counted in       *)
(* sample periods of SAMPLE_RATE = 250 ms; the calibration lasts           *)
(* CalibPeriods of them (CALIB_DURATION / SAMPLE_RATE = 720 in the build). *)

CalibPeriods == 4        \* sample periods until the calibration duration has elapsed
MaxHaltTicks == 2        \* iterations of the halt loop that are followed

(* sensor readings during calibration: a failed read, two plate readings *)
CalReadings == {-1, 500, 509}
(* sensor readings during the stabilization of the logger *)
CalStabReadings == {-1, 509}
(* sample periods one iteration of loop() takes: delay(SAMPLE_RATE), or   *)
(* longer when the sensor read is slow                                     *)
CalStepPeriods == {1, 2}

InitCalib ==
    /\ pc = "calSetup"
    /\ FirmwareAtRest
    /\ PureAtRest
    /\ CalibAtRest
    /\ SimAtRest

(* initializeSensor(), lines 94-110 *)
initializeSensor(initialReading) ==
    /\ pc = "calSetup"
    /\ filteredValue' = IF initialReading < 0 THEN 0 ELSE F32FromLong(initialReading)
    /\ calI' = 0
    /\ pc' = "calStabilize"
    /\ UNCHANGED <<maxReading, minReading, sumReadings, sampleCount, elapsed, calOut,
                   printed, sensorRead, filteredBefore, calReads, haltTicks>>
    /\ UNCHANGED <<firmwareVars, pureVars, simVars>>

(* one iteration of the loop of stabilizeFilter(), lines 119-128; after the *)
(* last one setup() prints the header lines and takes calibStartTime,       *)
(* lines 53-61                                                              *)
calStabilizeFilter(reading) ==
    /\ pc = "calStabilize"
    /\ calI < CAL_STABILIZE_SAMPLES
    /\ filteredValue' = StabilizedValue(reading, filteredValue)
    /\ calI' = calI + 1
    /\ IF calI + 1 < CAL_STABILIZE_SAMPLES
       THEN /\ pc' = "calStabilize"
            /\ calOut' = calOut
       ELSE /\ pc' = "calLoop"
            /\ calOut' = calOut \o <<"CSV_HEADER", "CSV_DATA_START">>
    /\ elapsed' = 0
    /\ UNCHANGED <<maxReading, minReading, sumReadings, sampleCount, printed,
                   sensorRead, filteredBefore, calReads, haltTicks>>
    /\ UNCHANGED <<firmwareVars, pureVars, simVars>>

(* lines 143-150: the filter value after collectData read rawReading *)
CollectedValue(rawReading, f) ==
    LET used == IF rawReading < 0 THEN ToLong(f) ELSE rawReading
    IN  EmaUpdate(used, f)

(* lines 209-215: the constants printed for the main firmware *)
PrintedRange(lowest, highest) == [min |-> lowest, max |-> highest]

(* loop(), lines 66-86, before the calibration duration has elapsed: *)
(* collectData(), lines 138-174, and delay(SAMPLE_RATE)              *)
collectData(rawReading, periods) ==
    /\ pc = "calLoop"
    /\ elapsed < CalibPeriods
    /\ sensorRead' = rawReading
    /\ filteredBefore' = filteredValue
    /\ calReads' = calReads + 1
    /\ filteredValue' = CollectedValue(rawReading, filteredValue)
    /\ LET filteredInt == ToLong(filteredValue')
       IN  /\ sampleCount' = sampleCount + 1
           /\ sumReadings' = sumReadings + filteredInt
           /\ maxReading' = IF filteredInt > maxReading THEN filteredInt ELSE maxReading
           /\ minReading' = IF filteredInt < minReading THEN filteredInt ELSE minReading
    /\ calOut' = Append(calOut, "ROW")
    /\ elapsed' = elapsed + periods
    /\ pc' = "calLoop"
    /\ UNCHANGED <<calI, printed, haltTicks>>
    /\ UNCHANGED <<firmwareVars, pureVars, simVars>>

(* loop(), lines 70-73, once the calibration duration has elapsed: the end *)
(* marker and printCalibrationResults(), lines 180-225                     *)
finishCalibration ==
    /\ pc = "calLoop"
    /\ elapsed >= CalibPeriods
    /\ printed' = [samples |-> sampleCount,
                   average |-> IF sampleCount > 0 THEN TruncDiv(sumReadings, sampleCount) ELSE 0,
                   range |-> maxReading - minReading,
                   constants |-> PrintedRange(minReading, maxReading)]
    /\ calOut' = calOut \o <<"CSV_DATA_END", "SENSOR_RAW_MIN", "SENSOR_RAW_MAX",
                             "CALIBRATION_DONE">>
    /\ pc' = "calHalted"
    /\ UNCHANGED <<filteredValue, maxReading, minReading, sumReadings, sampleCount,
                   calI, elapsed, sensorRead, filteredBefore, calReads, haltTicks>>
    /\ UNCHANGED <<firmwareVars, pureVars, simVars>>

(* variant: the logger keeps sampling after the summary *)
haltLoopSampling ==
    /\ pc = "calHalted"
    /\ haltTicks < MaxHaltTicks
    /\ haltTicks' = haltTicks + 1
    /\ sampleCount' = sampleCount + 1
    /\ calReads' = calReads + 1
    /\ calOut' = Append(calOut, "ROW")
    /\ pc' = "calHalted"
    /\ UNCHANGED <<filteredValue, maxReading, minReading, sumReadings,
                   calI, elapsed, printed, sensorRead, filteredBefore>>
    /\ UNCHANGED <<firmwareVars, pureVars, simVars>>

(* one iteration of the halt loop, lines 76-78 *)
haltLoop ==
    /\ pc = "calHalted"
    /\ haltTicks < MaxHaltTicks
    /\ haltTicks' = haltTicks + 1
    /\ pc' = "calHalted"
    /\ UNCHANGED <<filteredValue, maxReading, minReading, sumReadings, sampleCount,
                   calI, elapsed, calOut, printed, sensorRead, filteredBefore, calReads>>
    /\ UNCHANGED <<firmwareVars, pureVars, simVars>>

NextCalib ==
    \/ \E reading \in CalReadings : initializeSensor(reading)
    \/ \E reading \in CalStabReadings : calStabilizeFilter(reading)
    \/ \E reading \in CalReadings, periods \in CalStepPeriods :
           collectData(reading, periods)
    \/ finishCalibration
    \/ haltLoop

SpecCalib == InitCalib /\ [][NextCalib]_vars

-----------------------------------------------------------------------------
(* The simulation-capable firmware, part_000.  Heights are in micrometres, *)
(* flows in microlitres per second, pressures in pascals.                  *)

AnalysisReads == 12      \* reads of the analysis phase (up to 100 in 5 s at 50 ms)
MaxPolls == 2            \* Serial.read() calls without 'S' that are followed
MaxSimSteps == 54        \* steps of the main operation loop that are followed

(* part_000 constants *)
TOTAL_POINTS == 51
ZERO_READS == 10
WET_THRESHOLD == 100
WET_SAMPLES_NEEDED == 10
REAL_SPAN == 9000
SIM_H_MAX_MM == 175
K_FACTOR_E4 == 3656
RHO_FLUID_KG == 1000
RHO_MANO_KG == 1590
G_CM == 981

(* lines 10-13 as floats *)
RHO_FLUID == F32FromLong(RHO_FLUID_KG)
RHO_MANO == F32FromLong(RHO_MANO_KG)
G == F32Decimal(G_CM, 100)
H_MAX == F32Decimal(SIM_H_MAX_MM, 1000)

(* the literals of H_VALS, lines 17-24, in units of 0.1 mm *)
H_VALS_TENTH_MM ==
    << 0, 10, 35, 75, 130, 200, 285, 380, 485, 595,
       710, 825, 940, 1050, 1155, 1255, 1345, 1425, 1495, 1555,
       1605, 1645, 1675, 1700, 1715, 1725, 1732, 1738, 1742, 1745,
       1747, 1748, 1749, 1750, 1750, 1750, 1750, 1750, 1750, 1750,
       1750, 1750, 1750, 1750, 1750, 1750, 1750, 1750, 1750, 1750,
       1750 >>

(* Q_VALS, lines 25-32, in ml/s *)
Q_VALS_ML ==
    << 0, 12, 22, 32, 42, 52, 62, 71, 81, 89,
       97, 105, 112, 118, 124, 130, 134, 138, 141, 144,
       146, 148, 150, 151, 151, 152, 152, 152, 153, 153,
       153, 153, 153, 153, 153, 153, 153, 153, 153, 153,
       153, 153, 153, 153, 153, 153, 153, 153, 153, 153,
       153 >>

(* H_VALS[] as stored: each literal rounded to float *)
H_VALS_TABLE ==
    [k \in 1..TOTAL_POINTS |-> F32Decimal(H_VALS_TENTH_MM[k], 10000)]

(* the tables with the index of the code, from 0: heights are floats in *)
(* metres, flows integers in ul/s                                       *)
H_VALS(k) == H_VALS_TABLE[k + 1]
Q_VALS(k) == Q_VALS_ML[k + 1] * 1000

(* sensor readings of the auto-zero (-2 is the library's timeout code), of *)
(* the analysis phase and of runReal;                                      *)
(* bytes Serial.read() returns while waiting: nothing, 'S', 'X'            *)
ZeroReadings == {-2, 0, 200}
AnalysisReadings == {0, 300}
RealReadings == {0, 400}
SerialBytes == {NO_BYTE, START_BYTE, 88}

InitSim ==
    /\ pc = "simZero"
    /\ FirmwareAtRest
    /\ PureAtRest
    /\ CalibAtRest
    /\ SimAtRest

(* one iteration of the auto-zero loop, line 45; after the last one *)
(* zeroPoint = total / 10, line 46                                  *)
autoZero(reading) ==
    /\ pc = "simZero"
    /\ zeroI < ZERO_READS
    /\ zeroTotal' = zeroTotal + reading
    /\ zeroI' = zeroI + 1
    /\ IF zeroI + 1 < ZERO_READS
       THEN /\ pc' = "simZero"
            /\ zeroPoint' = zeroPoint
       ELSE /\ pc' = "simWait"
            /\ zeroPoint' = TruncDiv(zeroTotal', ZERO_READS)
    /\ UNCHANGED <<isRealMode, simIndex, validSamples, accumRaw, analysisI, simLine,
                   simLcd, lastByte, polls, analyses, wetReads, lastRoutine,
                   readIndex, simSteps>>
    /\ UNCHANGED <<firmwareVars, pureVars, calibVars>>

(* variant: any received byte starts the firmware *)
StartsOnAnyByte(byte) == byte # NO_BYTE

(* line 54: the condition that ends the wait *)
StartsOn(byte) == byte = START_BYTE

(* one iteration of while(Serial.read() != 'S'), line 54; when it ends *)
(* setup() returns and loop() starts its analysis phase, lines 59-64   *)
waitForStart(byte) ==
    /\ pc = "simWait"
    /\ StartsOn(byte) \/ polls < MaxPolls
    /\ lastByte' = byte
    /\ polls' = IF StartsOn(byte) THEN polls ELSE polls + 1
    /\ pc' = IF StartsOn(byte) THEN "simAnalyze" ELSE "simWait"
    /\ validSamples' = 0
    /\ accumRaw' = 0
    /\ analysisI' = 0
    /\ UNCHANGED <<zeroPoint, isRealMode, simIndex, zeroI, zeroTotal, simLine, simLcd,
                   analyses, wetReads, lastRoutine, readIndex, simSteps>>
    /\ UNCHANGED <<firmwareVars, pureVars, calibVars>>

(* line 69: the threshold for "wet" *)
IsWet(val) == val > WET_THRESHOLD

(* one iteration of the analysis loop, lines 66-74 *)
analysisRead(r) ==
    /\ pc = "simAnalyze"
    /\ analysisI < AnalysisReads
    /\ LET val == r - zeroPoint
       IN  /\ validSamples' = IF IsWet(val) THEN validSamples + 1 ELSE validSamples
           /\ accumRaw' = IF IsWet(val) THEN accumRaw + val ELSE accumRaw
    /\ wetReads' = IF r - zeroPoint > 100 THEN wetReads + 1 ELSE wetReads
    /\ analysisI' = analysisI + 1
    /\ pc' = "simAnalyze"
    /\ UNCHANGED <<zeroPoint, isRealMode, simIndex, zeroI, zeroTotal, simLine, simLcd,
                   lastByte, polls, analyses, lastRoutine, readIndex, simSteps>>
    /\ UNCHANGED <<firmwareVars, pureVars, calibVars>>

(* variant: ten wet samples are enough *)
SelectRealInclusive(samples) == samples >= WET_SAMPLES_NEEDED

(* line 77: the decision *)
SelectReal(samples) == samples > WET_SAMPLES_NEEDED

(* the end of the analysis phase and the decision, lines 76-84 *)
decide ==
    /\ pc = "simAnalyze"
    /\ analysisI >= AnalysisReads
    /\ isRealMode' = SelectReal(validSamples)
    /\ analyses' = analyses + 1
    /\ pc' = "simRun"
    /\ UNCHANGED <<zeroPoint, simIndex, zeroI, zeroTotal, validSamples, accumRaw,
                   analysisI, simLine, simLcd, lastByte, polls, wetReads, lastRoutine,
                   readIndex, simSteps>>
    /\ UNCHANGED <<firmwareVars, pureVars, calibVars>>

(* sendData(), lines 124-128 *)
sendData(q, h) == [q |-> q, h |-> h]

(* updateDisplay(), lines 130-138: p = (RHO_MANO - RHO_FLUID) * G * h in *)
(* float arithmetic, shown as (int)p                                    *)
updateDisplay(q, h, isSim) ==
    LET p == F32Mul(F32Mul(F32Sub(RHO_MANO, RHO_FLUID), G), h)
    IN  [indicator |-> isSim, q |-> q, h |-> h, p |-> F32ToLong(p)]

(* lines 92-99: the height runReal computes from a reading *)
RealHeight(r, zero) ==
    LET val == IF r - zero < 0 THEN 0 ELSE r - zero
        quotient == F32Div(F32FromLong(val), F32FromLong(REAL_SPAN))
        fraction == IF quotient > F32FromLong(1) THEN F32FromLong(1) ELSE quotient
    IN  F32Mul(fraction, H_MAX)

(* lines 100-101: the flow runReal computes from a height, in ul/s, from *)
(* the height to the nearest micrometre                                 *)
RealFlow(h) ==
    IF h > 0 THEN (K_FACTOR_E4 * Sqrt(100 * Micrometres(h))) \div 100 ELSE 0

(* runReal(), lines 91-106, called from the main operation loop *)
runReal(r) ==
    /\ pc = "simRun"
    /\ isRealMode
    /\ simSteps < MaxSimSteps
    /\ \E h \in {RealHeight(r, zeroPoint)} :
           \E Q \in {RealFlow(h)} :
               /\ simLine' = <<sendData(Q, h)>>
               /\ simLcd' = <<updateDisplay(Q, h, FALSE)>>
    /\ lastRoutine' = "real"
    /\ simSteps' = simSteps + 1
    /\ pc' = "simRun"
    /\ UNCHANGED <<zeroPoint, isRealMode, simIndex, zeroI, zeroTotal, validSamples,
                   accumRaw, analysisI, lastByte, polls, analyses, wetReads, readIndex>>
    /\ UNCHANGED <<firmwareVars, pureVars, calibVars>>

(* variant: the index starts over after the last point *)
NextSimIndexWrapping(index) ==
    IF index + 1 >= TOTAL_POINTS THEN 0 ELSE index + 1

(* lines 116-120: simIndex after a step *)
NextSimIndex(index) ==
    IF index + 1 >= TOTAL_POINTS THEN TOTAL_POINTS - 1 ELSE index + 1

(* runSim(), lines 108-122, called from the main operation loop *)
runSim ==
    /\ pc = "simRun"
    /\ ~isRealMode
    /\ simSteps < MaxSimSteps
    /\ readIndex' = simIndex
    /\ \E h \in {H_VALS(simIndex)} :
           \E Q \in {Q_VALS(simIndex)} :
               /\ simLine' = <<sendData(Q, h)>>
               /\ simLcd' = <<updateDisplay(Q, h, TRUE)>>
    /\ simIndex' = NextSimIndex(simIndex)
    /\ lastRoutine' = "sim"
    /\ simSteps' = simSteps + 1
    /\ pc' = "simRun"
    /\ UNCHANGED <<zeroPoint, isRealMode, zeroI, zeroTotal, validSamples, accumRaw,
                   analysisI, lastByte, polls, analyses, wetReads>>
    /\ UNCHANGED <<firmwareVars, pureVars, calibVars>>

NextSim ==
    \/ \E reading \in ZeroReadings : autoZero(reading)
    \/ \E byte \in SerialBytes : waitForStart(byte)
    \/ \E r \in AnalysisReadings : analysisRead(r)
    \/ decide
    \/ \E r \in RealReadings : runReal(r)
    \/ runSim

SpecSim == InitSim /\ [][NextSim]_vars

-----------------------------------------------------------------------------
(* Properties of the main firmware *)

(* a completed cycle: loop() is back at its first statement *)
CycleDone == pc = "read" /\ cycles > 0

OutOfEnvelope(raw) == raw < EXTREME_MIN \/ raw > EXTREME_MAX

(* C1: fallback is entered exactly by the cycle that processes the          *)
(* MAX_FAILURES-th consecutive invalid reading, by no other step, and a     *)
(* valid reading resets failureCount to 0 and leaves the controller Normal  *)
C1_FallbackEntry ==
    [][ /\ (~inFallbackMode /\ inFallbackMode')
            <=> (pc = "process" /\ ~isValid /\ streak' = MAX_FAILURES)
        /\ (pc = "process" /\ isValid) => (failureCount' = 0 /\ ~inFallbackMode')
      ]_vars

C1_Witness ==
    /\ CycleDone
    /\ ~isValid
    /\ streak = MAX_FAILURES
    /\ inFallbackMode
    /\ serial = <<"ACTIVATED">>

(* C2: in every streak of invalid readings the ACTIVATED notification is    *)
(* printed once, by the cycle of the MAX_FAILURES-th invalid reading, and   *)
(* by no later cycle of the streak                                          *)
C2_NotifiedOnce ==
    CycleDone =>
        /\ activations = (IF streak >= MAX_FAILURES THEN 1 ELSE 0)
        /\ Count(serial, "ACTIVATED") =
              (IF ~isValid /\ streak = MAX_FAILURES THEN 1 ELSE 0)

C2_Witness ==
    /\ CycleDone
    /\ streak >= MAX_FAILURES + 2
    /\ activations = 1
    /\ Count(serial, "ACTIVATED") = 0

(* C3: a valid cycle leaves the controller Normal with failureCount 0 and   *)
(* prints RESTORED once exactly when it started in fallback; ACTIVATED and  *)
(* RESTORED notifications alternate, the first one being ACTIVATED          *)
C3_Restore ==
    [][ /\ (pc = "process" /\ isValid) =>
              /\ ~inFallbackMode'
              /\ failureCount' = 0
              /\ Count(serial', "RESTORED") = (IF inFallbackMode THEN 1 ELSE 0)
        /\ (pc = "process" /\ Count(serial', "ACTIVATED") > 0) =>
              lastNotice # "ACTIVATED"
        /\ (pc = "process" /\ Count(serial', "RESTORED") > 0) =>
              lastNotice = "ACTIVATED"
      ]_vars

C3_Witness ==
    /\ CycleDone
    /\ isValid
    /\ serial = <<"RESTORED">>
    /\ ~inFallbackMode
    /\ failureCount = 0

(* C4: an invalid cycle reports, as heightSnapped and as heightCalculated,  *)
(* the snapped height of the most recent valid cycle (0 when there was none)*)
C4_HeldHeight ==
    (CycleDone /\ ~isValid) =>
        /\ heightSnapped = heldHeight
        /\ heightCalculated = heldHeight

C4_Witness ==
    /\ CycleDone
    /\ ~isValid
    /\ inFallbackMode
    /\ heldHeight > 0
    /\ heightSnapped = heldHeight
    /\ heightCalculated = heldHeight

(* C5: an invalid cycle leaves filteredReading and lastValidHeight as they  *)
(* were, and a negative stabilization reading leaves filteredReading as it  *)
(* was                                                                      *)
C5_RejectedLeavesState ==
    [][ /\ (pc = "process" /\ ~isValid) =>
              UNCHANGED <<filteredReading, lastValidHeight>>
        /\ (\E r \in StabValues : r < 0 /\ StabilizeFilter(r)) =>
              UNCHANGED filteredReading
      ]_vars

C5_Witness ==
    /\ CycleDone
    /\ ~isValid
    /\ ~OutOfEnvelope(rawValue)
    /\ filteredReading > 0
    /\ lastValidHeight > 0

(* |raw - f| > 0.5 * SPAN, compared exactly: raw - SPAN / 2 and            *)
(* raw + SPAN / 2 are floats                                              *)
FartherThanHalfSpan(raw, f) ==
    \/ f < F32Decimal(2 * raw - SPAN, 2)
    \/ f > F32Decimal(2 * raw + SPAN, 2)

(* C6: validateReading rejects every reading farther than half the          *)
(* calibrated span from filteredReading, whatever filteredReading is, and   *)
(* accepts an in-envelope reading that is not farther                       *)
C6_JumpRejected ==
    pc = "process" =>
        /\ FartherThanHalfSpan(rawValue, filteredReading) => ~isValid
        /\ (/\ ~OutOfEnvelope(rawValue)
            /\ ~FartherThanHalfSpan(rawValue, filteredReading)) => isValid

(* C7: a reading outside [EXTREME_MIN, EXTREME_MAX] is judged invalid       *)
(* whatever the filter holds, its cycle counts one failure and the loop     *)
(* goes on to its next cycle                                                *)
C7_EnvelopeRejected ==
    [][ (pc = "process" /\ OutOfEnvelope(rawValue)) =>
            /\ ~isValid
            /\ failureCount' = failureCount + 1
            /\ pc' = "read"
      ]_vars

(* C8: the validation step changes none of filteredReading, lastValidHeight,*)
(* failureCount, inFallbackMode, and its verdict is determined by the       *)
(* reading and filteredReading alone                                        *)
C8_ValidatePure ==
    [][ pc = "read" =>
            /\ UNCHANGED <<filteredReading, lastValidHeight, failureCount, inFallbackMode>>
            /\ isValid' = validateReading(rawValue', filteredReading')
      ]_vars

C8_Witness ==
    /\ pc = "process"
    /\ isValid
    /\ inFallbackMode
    /\ failureCount >= MAX_FAILURES
    /\ lastValidHeight > 0

(* C9: on a valid cycle the calculated height is 0 when the filter value is *)
(* at or below SENSOR_RAW_MIN, H_MAX_METERS when it is at or above          *)
(* SENSOR_RAW_MAX, and always within [0, H_MAX_METERS]                      *)
C9_MapClamped ==
    (CycleDone /\ isValid) =>
        /\ filteredReading <= F32FromLong(SENSOR_RAW_MIN) => heightCalculated = 0
        /\ filteredReading >= F32FromLong(SENSOR_RAW_MAX) => heightCalculated = H_MAX_METERS
        /\ heightCalculated >= 0
        /\ heightCalculated <= H_MAX_METERS

C9_Witness ==
    /\ CycleDone
    /\ isValid
    /\ filteredReading > F32FromLong(SENSOR_RAW_MAX)
    /\ heightCalculated = H_MAX_METERS

-----------------------------------------------------------------------------
(* Properties of the height mapping *)

InCalibration(f) == F32FromLong(SENSOR_RAW_MIN) <= f /\ f <= F32FromLong(SENSOR_RAW_MAX)

(* C10: for filter values a <= b within the calibration bounds the height   *)
(* calculated for a is not greater than the height calculated for b         *)
C10_MapMonotone ==
    pc = "returned" =>
        ((InCalibration(probe.a) /\ InCalibration(probe.b) /\ probe.a <= probe.b)
            => result.ha <= result.hb)

C10_Witness ==
    /\ pc = "returned"
    /\ InCalibration(probe.a)
    /\ InCalibration(probe.b)
    /\ probe.a < probe.b
    /\ result.ha < result.hb

-----------------------------------------------------------------------------
(* Properties of snapToRealisticValue *)

(* the table value at index k *)
StepOf(k) == HEIGHT_STEPS(k)

(* distance from the argument to the table value at index k *)
DistanceTo(k) == Abs(F32Sub(probe.h, StepOf(k)))

(* the indices of the table values nearest to the argument *)
NearestIndices ==
    { k \in 1..HEIGHT_STEPS_COUNT :
        \A j \in 1..HEIGHT_STEPS_COUNT : DistanceTo(k) <= DistanceTo(j) }

LowestIndex(S) == CHOOSE k \in S : \A j \in S : k <= j

(* C11: for every height that the firmware passes with a calibration range  *)
(* sensorRawMin < sensorRawMax, the result is an element of HEIGHT_STEPS,   *)
(* no element is nearer to the height, and among equally near elements it   *)
(* is the one of lowest index                                               *)
C11_SnapNearest ==
    (pc = "returned" /\ sensorRawMin < sensorRawMax) =>
        /\ \E k \in 1..HEIGHT_STEPS_COUNT : result = StepOf(k)
        /\ \A j \in 1..HEIGHT_STEPS_COUNT : Abs(F32Sub(probe.h, result)) <= DistanceTo(j)
        /\ result = StepOf(LowestIndex(NearestIndices))

(* a height exactly between two table values, snapped to the lower one *)
C11_Witness ==
    /\ pc = "returned"
    /\ sensorRawMin < sensorRawMax
    /\ Cardinality(NearestIndices) = 2
    /\ probe.h > 0
    /\ result = StepOf(LowestIndex(NearestIndices))
    /\ result < probe.h

-----------------------------------------------------------------------------
(* Properties of the flow model *)

ConfiguredDensities ==
    probe.densities = [fluid |-> FLUID_DENSITY_G, manometer |-> MANOMETER_DENSITY_G]

BelowThreshold(h) == h < MIN_FLOW_HEIGHT

(* C12: with the configured constants calculateFlowRate returns 0 for every *)
(* height below MIN_FLOW_HEIGHT, and for heights h1 <= h2 at or above it    *)
(* the flow for h1 is not greater than the flow for h2                      *)
C12_FlowZeroAndMonotone ==
    (pc = "returned" /\ ConfiguredDensities) =>
        /\ BelowThreshold(probe.h1) => result.flow1 = 0
        /\ (/\ ~BelowThreshold(probe.h1)
            /\ ~BelowThreshold(probe.h2)
            /\ probe.h1 <= probe.h2) => result.flow1 <= result.flow2

C12_Witness ==
    /\ pc = "returned"
    /\ ConfiguredDensities
    /\ probe.h1 > 0
    /\ BelowThreshold(probe.h1)
    /\ result.flow1 = 0
    /\ ~BelowThreshold(probe.h2)
    /\ result.flow2 > 0

(* C13: for every height and every density configuration the pressure of   *)
(* loop() is not negative and the argument handed to sqrt() is not negative *)
C13_PressureClamped ==
    pc = "returned" =>
        /\ result.pressure1 >= 0
        /\ result.sqrtArg1 >= 0
        /\ result.flow1 >= 0

C13_Witness ==
    /\ pc = "returned"
    /\ probe.densities.manometer > probe.densities.fluid
    /\ ~BelowThreshold(probe.h1)
    /\ RawPressure(probe.densities.fluid - probe.densities.manometer, probe.h1) < 0
    /\ result.pressure1 = 0
    /\ result.sqrtArg1 = 0

-----------------------------------------------------------------------------
(* Properties of startup and of the cycle's reports *)

(* C14: with SENSOR_RAW_MAX == SENSOR_RAW_MIN no measurement cycle is       *)
(* executed and the division of the height mapping is never evaluated with  *)
(* a zero divisor, that is, no height is ever NaN                           *)
C14_DegenerateRefused ==
    (sensorRawMax = sensorRawMin) =>
        /\ cycles = 0
        /\ heightCalculated # NaN
        /\ heightSnapped # NaN

(* C15: filteredReading is seeded once, by initializeSystem, before any    *)
(* stabilization update and before the first cycle: with the initial       *)
(* reading when validateReading accepts it, otherwise with the midpoint    *)
(* 4870; the first telemetry line comes after exactly 20 stabilization     *)
(* reads                                                                   *)
C15_SeededOnce ==
    /\ (pc = "setup") => (seeds = 0 /\ i = 0 /\ cycles = 0 /\ telemetry = <<>>)
    /\ (pc # "setup") => (seeds = 1)
    /\ (pc = "stabilize" /\ i = 0) =>
          filteredReading = (IF validateReading(initialValue, 0)
                             THEN F32FromLong(initialValue)
                             ELSE F32FromLong(4870))
    /\ (pc = "stabilize") => (i < STABILIZE_SAMPLES /\ cycles = 0 /\ telemetry = <<>>)
    /\ (pc \in {"read", "process"}) => (i = 20)
    /\ (telemetry # <<>>) => (i = 20 /\ seeds = 1)

C15_Witness ==
    /\ CycleDone
    /\ cycles = 1
    /\ Len(telemetry) = 1
    /\ ~validateReading(initialValue, 0)
    /\ ~isValid
    /\ filteredReading = F32FromLong(4870)
    /\ seeds = 1
    /\ i = 20

(* C16: the telemetry line of a cycle carries the [FALLBACK] marker exactly *)
(* when the controller is in fallback after the cycle's processing, that   *)
(* is, exactly on the invalid cycles from the MAX_FAILURES-th of a streak  *)
(* on; the line of a valid cycle and of an earlier invalid cycle does not  *)
C16_FallbackMarker ==
    CycleDone =>
        /\ Len(telemetry) = 1
        /\ telemetry[1].marker = inFallbackMode
        /\ telemetry[1].marker = (~isValid /\ streak >= MAX_FAILURES)
        /\ isValid => ~telemetry[1].marker

C16_Witness ==
    /\ CycleDone
    /\ ~isValid
    /\ streak = MAX_FAILURES + 1
    /\ serial = <<>>
    /\ Len(telemetry) = 1
    /\ telemetry[1].marker

(* C17: every cycle, valid or invalid, in normal or in fallback mode, runs *)
(* to completion and emits one display update and one telemetry line,     *)
(* after which loop() is at its first statement again, where the next    *)
(* cycle can start with every reading (up to the bound MaxCycles)         *)
C17_LoopKeepsReporting ==
    /\ []((pc = "read" /\ cycles < MaxCycles) =>
              \A raw \in RawValues : ENABLED ReadSensor(raw))
    /\ [][ (pc = "process") =>
              /\ pc' = "read"
              /\ cycles' = cycles + 1
              /\ Len(lcd') = 1
              /\ Len(telemetry') = 1
         ]_vars

(* the last cycle of the run is an invalid one in fallback mode, reported *)
(* on the display and in the telemetry                                    *)
C17_Witness ==
    /\ CycleDone
    /\ cycles = MaxCycles
    /\ inFallbackMode
    /\ ~isValid
    /\ Len(lcd) = 1
    /\ lcd[1].warning
    /\ Len(telemetry) = 1

-----------------------------------------------------------------------------
(* Properties of the calibration logger *)

(* positions of a marker line in the logger's output *)
Positions(out, line) == {k \in DOMAIN out : out[k] = line}

(* the statistics of the logger *)
calStats == <<minReading, maxReading, sumReadings, sampleCount>>

(* the shape of the logger's output so far *)
CalShape ==
    LET starts == Positions(calOut, "CSV_DATA_START")
        ends   == Positions(calOut, "CSV_DATA_END")
        dones  == Positions(calOut, "CALIBRATION_DONE")
        rows   == Positions(calOut, "ROW")
    IN  /\ (pc \in {"calSetup", "calStabilize"}) => (calOut = <<>>)
        /\ (pc \in {"calLoop", "calHalted"}) => (Cardinality(starts) = 1)
        /\ Cardinality(ends) = (IF pc = "calHalted" THEN 1 ELSE 0)
        /\ Cardinality(dones) = Cardinality(ends)
        /\ Cardinality(rows) = sampleCount
        /\ \A k \in DOMAIN calOut :
              (calOut[k] = "ROW") <=>
                  /\ \E b \in starts : b < k
                  /\ \A e \in ends : k < e
        /\ \A e \in ends :
              /\ elapsed >= CalibPeriods
              /\ \A b \in starts : b < e
              /\ \A d \in dones : e < d /\ d = Len(calOut)

(* C18: the output is CSV_DATA_START once, then only data rows, then        *)
(* CSV_DATA_END once, after the calibration duration has elapsed, then the  *)
(* summary ending in CALIBRATION_DONE once; after CSV_DATA_END no sample is *)
(* read, no row is printed and the statistics do not change                 *)
C18_CalibrationOutput ==
    /\ []CalShape
    /\ [][ (Positions(calOut, "CSV_DATA_END") # {}) =>
              /\ calReads' = calReads
              /\ calOut' = calOut
              /\ calStats' = calStats
              /\ printed' = printed
         ]_vars

C18_Witness ==
    /\ pc = "calHalted"
    /\ haltTicks = MaxHaltTicks
    /\ sampleCount >= 3
    /\ Positions(calOut, "CSV_DATA_END") # {}
    /\ calOut[Len(calOut)] = "CALIBRATION_DONE"
    /\ printed.samples = sampleCount

(* C19: the constants printed by printCalibrationResults satisfy            *)
(* SENSOR_RAW_MIN < SENSOR_RAW_MAX, whatever the readings were              *)
C19_RangeNotDegenerate ==
    (pc = "calHalted") => (printed.constants.min < printed.constants.max)

(* C20: when the sensor read of collectData returned a negative value,      *)
(* filteredValue after the call equals filteredValue before the call        *)
C20_HeldOnError ==
    (pc = "calLoop" /\ sampleCount > 0 /\ sensorRead < 0) =>
        (filteredValue = filteredBefore)

-----------------------------------------------------------------------------
(* Properties of the simulation-capable firmware *)

(* C21: the analysis phase runs once and decides isRealMode as               *)
(* (validSamples > 10), validSamples being the number of analysis reads     *)
(* with reading - zeroPoint > 100; afterwards isRealMode does not change    *)
(* and every step executes the selected routine                             *)
C21_SourceSelectedOnce ==
    /\ [](/\ analyses <= 1
          /\ validSamples = wetReads
          /\ (pc = "simRun") =>
                /\ analyses = 1
                /\ isRealMode = (wetReads > 10)
                /\ lastRoutine \in {"none", IF isRealMode THEN "real" ELSE "sim"}
          /\ (pc # "simRun") => (analyses = 0 /\ lastRoutine = "none"))
    /\ [][ (pc = "simRun") =>
              /\ pc' = "simRun"
              /\ isRealMode' = isRealMode
              /\ analyses' = analyses
              /\ lastRoutine' = (IF isRealMode THEN "real" ELSE "sim")
         ]_vars

C21_Witness ==
    /\ pc = "simRun"
    /\ wetReads = 11
    /\ isRealMode
    /\ lastRoutine = "real"
    /\ simSteps >= 2

(* C22: in simulation mode simIndex is within [0, TOTAL_POINTS - 1] at      *)
(* every read of the tables, never decreases, advances by one per step      *)
(* until it is TOTAL_POINTS - 1 and stays there, the last table point being *)
(* sent by every later step                                                 *)
C22_SimIndexBounded ==
    /\ [](/\ simIndex \in 0..(TOTAL_POINTS - 1)
          /\ readIndex \in 0..(TOTAL_POINTS - 1))
    /\ [][ /\ simIndex' >= simIndex
           /\ (pc = "simRun" /\ ~isRealMode) =>
                 /\ readIndex' = simIndex
                 /\ simIndex' = (IF simIndex < TOTAL_POINTS - 1
                                 THEN simIndex + 1
                                 ELSE TOTAL_POINTS - 1)
                 /\ simLine' = <<[q |-> Q_VALS(simIndex), h |-> H_VALS(simIndex)]>>
         ]_vars

C22_Witness ==
    /\ pc = "simRun"
    /\ ~isRealMode
    /\ simSteps = MaxSimSteps
    /\ simIndex = TOTAL_POINTS - 1
    /\ readIndex = TOTAL_POINTS - 1
    /\ simLine = <<[q |-> 153000, h |-> F32Decimal(1750, 10000)]>>

(* C23: until the byte 'S' has been received no measurement line is sent    *)
(* and the analysis phase does not start; as long as Serial.read() returns  *)
(* anything else the firmware stays in setup()                              *)
C23_WaitsForStart ==
    /\ [](/\ (pc \in {"simZero", "simWait"}) =>
                /\ lastByte # 83
                /\ simLine = <<>>
                /\ simLcd = <<>>
                /\ simSteps = 0
                /\ analysisI = 0
                /\ analyses = 0
          /\ (pc \in {"simAnalyze", "simRun"}) => (lastByte = 83))
    /\ [][ (pc = "simWait" /\ lastByte' # 83) => (pc' = "simWait") ]_vars

C23_Witness ==
    /\ pc = "simWait"
    /\ polls = MaxPolls
    /\ lastByte = 88
    /\ simLine = <<>>
    /\ analysisI = 0

-----------------------------------------------------------------------------
(* Further properties of the main firmware *)

(* C24: at the end of every cycle inFallbackMode holds exactly when         *)
(* failureCount >= MAX_FAILURES, and failureCount is the number of          *)
(* consecutive invalid readings, for streaks of any length                  *)
C24_FallbackIffCount ==
    CycleDone =>
        /\ inFallbackMode <=> (failureCount >= MAX_FAILURES)
        /\ failureCount = streak

(* C25: when every reading of loop() is the same value within the envelope, *)
(* a reading is accepted and the controller is out of fallback after the    *)
(* cycles that are followed                                                 *)
C25_RecoversFromFallback ==
    (CycleDone /\ cycles = MaxCycles /\ ~OutOfEnvelope(rawValue)) =>
        (~inFallbackMode /\ streak < cycles)

(* C26: when startup has completed and after every cycle, filteredReading  *)
(* lies within [EXTREME_MIN, EXTREME_MAX], whatever the readings were       *)
C26_FilterInEnvelope ==
    (pc = "read") =>
        /\ filteredReading >= F32FromLong(EXTREME_MIN)
        /\ filteredReading <= F32FromLong(EXTREME_MAX)

(* the values of the table HEIGHT_STEPS *)
HeightStepValues == {HEIGHT_STEPS(k) : k \in 1..HEIGHT_STEPS_COUNT}

(* C27: the heightSnapped every cycle reports is an element of HEIGHT_STEPS, *)
(* also on invalid cycles before any valid reading, when the held value is  *)
(* the initial lastValidHeight                                              *)
C27_ReportedHeightInTable ==
    CycleDone =>
        /\ heightSnapped \in HeightStepValues
        /\ lastValidHeight \in HeightStepValues
        /\ \A k \in DOMAIN telemetry : telemetry[k].heightSnapped \in HeightStepValues
        /\ \A k \in DOMAIN lcd : lcd[k].height \in HeightStepValues

C27_Witness ==
    /\ CycleDone
    /\ ~isValid
    /\ streak = cycles
    /\ lastValidHeight = 0
    /\ Len(telemetry) = 1
    /\ telemetry[1].heightSnapped = HEIGHT_STEPS(1)

(* C28: in every frame reported with the default constants, flowRate,       *)
(* heightSnapped and pressureDiff are zero together                         *)
C28_ZeroTogether ==
    CycleDone =>
        \A k \in DOMAIN telemetry :
            /\ (telemetry[k].flow = 0) <=> (telemetry[k].heightSnapped = 0)
            /\ (telemetry[k].heightSnapped = 0) <=> (telemetry[k].pressure = 0)
            /\ telemetry[k].flow = flowRate
            /\ telemetry[k].pressure = pressureDiff
            /\ telemetry[k].heightSnapped = heightSnapped

C28_Witness ==
    /\ CycleDone
    /\ isValid
    /\ Len(telemetry) = 1
    /\ telemetry[1].heightSnapped = HEIGHT_STEPS(2)
    /\ telemetry[1].flow > 0
    /\ telemetry[1].pressure > 0

====
